---- MODULE Spec2Model ----
(***************************************************************************)
(* Model of AdriaVH/makeCalendar, src/app.py: the reconciliation of a      *)
(* parsed shift list against the remote calendar (sync), driven by the     *)
(* upload operation (upload_pdf); the purge (delete_all_app_events); the   *)
(* reading of the tables of a document (parse_pdf) and the validation of   *)
(* single shifts (add_shift_if_valid).  Every call to the calendar gateway *)
(* is one step; a call either succeeds or raises HttpError.  Exceptions of *)
(* other types (the outer except of sync) are not modelled.  Texts are     *)
(* sequences of characters.                                                *)
(***************************************************************************)
EXTENDS Integers, Sequences, FiniteSets, TLC

\* ------------------------------------------------------------------ bounds
MaxShifts == 3      \* longest shift list handed to sync
MaxRuns == 2        \* upload operations in one behaviour
MaxFails == 1       \* gateway calls that raise HttpError in one run
PageSize == 1       \* events per page of the gateway's listing
MaxCols == 3        \* columns of the tables drawn column by column
WideCols == 33      \* columns of the tables wider than a month is long
MaxPages == 1       \* pages of a document parsed with all its regions

\* ------------------------------------------------------------- data model
\* An instant: day number and minute of the day, as one integer.
Instant(day, minute) == day * 1440 + minute

\* The key string f"{date:%Y%m%d}-{slot}-{HHMM}-{HHMM}", as the tuple of its
\* four dash-separated fields.
KeyOf(date, slot, start, end) == <<date, slot, start, end>>

\* The record appended to shifts by add_shift_if_valid.
MkShift(date, slot, start, end) ==
    [key |-> KeyOf(date, slot, start, end), date |-> date, start |-> start, end |-> end]

\* An event without a private extended property "key".
NoKey == <<>>

\* Shifts parse_pdf can hand to sync: a day shift on day 1 and an overnight
\* shift on day 2.
ShiftPool ==
    { MkShift(1, 1, 480, 840), MkShift(2, 1, 1320, 300) }

\* Moments at which a run can begin (utcnow): before day 1, and on day 2
\* (when the day-1 shift lies in the past).
NowPool == { Instant(0, 0), Instant(2, 0) }

\* Events of the primary calendar that this program did not create: one
\* without the tag shiftUploader=1, and one that carries the tag but no key.
UntaggedEvent ==
    [id |-> 1, tagged |-> FALSE, key |-> NoKey,
     start |-> Instant(3, 600), end |-> Instant(3, 660)]
KeylessEvent ==
    [id |-> 2, tagged |-> TRUE, key |-> NoKey,
     start |-> Instant(3, 600), end |-> Instant(3, 660)]

ShiftLists == UNION { [1..n -> ShiftPool] : n \in 0..MaxShifts }

VARIABLES
    calendar,         \* the remote calendar: a set of events
    pc,               \* position of the upload operation
    now,              \* timeMin of the current run
    shifts,           \* the shift list of the current run
    existing_events,  \* events fetched so far
    page_token,       \* next page to fetch (0: None)
    by_key,           \* the dict key -> event, in insertion order
    i,                \* position of the upsert loop in shifts
    j,                \* position of the delete loop in by_key.values()
    inserts, updates, deletes,
    calls,            \* gateway calls issued by the current run, in order
    result,           \* what sync returned
    outcome,          \* what upload_pdf rendered
    runs,             \* upload operations begun
    before,           \* the calendar when the current run began
    repeat,           \* the current run repeats the shift list of the run before
                      \* it, which completed without a gateway failure
    year,             \* parse_pdf: the year read from the document title
    target_months,    \* parse_pdf: numbers of the months asked for ({}: all)
    pages,            \* parse_pdf: number of pages of the document
    region,           \* parse_pdf: position of the loops over pages and regions
    seen,             \* parse_pdf: what the extraction of each region gave
    parsed,           \* parse_pdf: the list shifts
    parse_out,        \* parse_pdf: the list it returned
    ppc,              \* parse_pdf: its position
    raw,              \* raw shifts handed to add_shift_if_valid
    norm,             \* what became of them
    creds             \* the credential the session holds

\* The state of the calendar reconciliation.
svars == <<calendar, pc, now, shifts, existing_events, page_token, by_key,
           i, j, inserts, updates, deletes, calls, result, outcome, runs, before, repeat>>

\* The state of parse_pdf.
pvars == <<year, target_months, pages, region, seen, parsed, parse_out, ppc>>

\* The state of the normalisation of single shifts.
nvars == <<raw, norm>>

vars == <<svars, pvars, nvars, creds>>

\* ---------------------------------------------------------------- helpers
RECURSIVE SeqOfSet(_)
\* A set of events as the sequence ordered by id.
SeqOfSet(S) ==
    IF S = {} THEN <<>>
    ELSE LET e == CHOOSE x \in S : \A y \in S : x.id <= y.id
         IN <<e>> \o SeqOfSet(S \ {e})

\* events().list(timeMin=now, privateExtendedProperty="shiftUploader=1"):
\* the tagged events starting at or after timeMin, in the order of their ids.
Listing(cal, timeMin) ==
    SeqOfSet({ e \in cal : e.tagged /\ e.start >= timeMin })

\* One page of the listing: the items and the nextPageToken (0: none).
PageOf(listing, token) ==
    LET from == token * PageSize + 1
        to == IF from + PageSize - 1 < Len(listing) THEN from + PageSize - 1
              ELSE Len(listing)
    IN [items |-> SubSeq(listing, from, to),
        next |-> IF to < Len(listing) THEN token + 1 ELSE 0]

RECURSIVE IndexOfKey(_, _)
\* Position of key k in the dict d, 0 when absent.
IndexOfKey(d, k) ==
    IF d = <<>> THEN 0
    ELSE IF d[Len(d)].key = k THEN Len(d)
    ELSE IndexOfKey(SubSeq(d, 1, Len(d) - 1), k)

\* by_key[k] = e on a dict kept in insertion order.
DictPut(d, k, e) ==
    LET p == IndexOfKey(d, k)
    IN IF p = 0 THEN Append(d, [key |-> k, ev |-> e])
       ELSE [d EXCEPT ![p] = [key |-> k, ev |-> e]]

\* del by_key[k]
DictDel(d, k) ==
    LET p == IndexOfKey(d, k)
    IN SubSeq(d, 1, p - 1) \o SubSeq(d, p + 1, Len(d))

\* A mapping loop that takes every listed event, keyed or not.
HasKeyUnchecked(e) == TRUE

\* Does the event carry extendedProperties.private.key ?
HasKey(e) == e.key # NoKey

RECURSIVE MapByKey(_, _)
\* "Map existing events by their unique key": the loop over existing_events.
MapByKey(events, d) ==
    IF events = <<>> THEN d
    ELSE MapByKey(Tail(events),
                  IF HasKey(Head(events))
                  THEN DictPut(d, Head(events).key, Head(events))
                  ELSE d)

\* The start and end instants of the event body built for shift s.
BodyStart(s) == Instant(s.date, s.start)

\* A body whose end also moves to the next day when it equals the start.
BodyEndInclusive(s) ==
    IF Instant(s.date, s.end) <= Instant(s.date, s.start)
    THEN Instant(s.date, s.end) + 1440
    ELSE Instant(s.date, s.end)

BodyEnd(s) ==
    IF Instant(s.date, s.end) < Instant(s.date, s.start)
    THEN Instant(s.date, s.end) + 1440
    ELSE Instant(s.date, s.end)

\* The event the gateway stores for body(s) under the given id.
EventOf(id, s) ==
    [id |-> id, tagged |-> TRUE, key |-> s.key, start |-> BodyStart(s), end |-> BodyEnd(s)]

\* The opaque id the gateway gives an inserted event: one no event of the
\* calendar has.
NewId(cal) == CHOOSE n \in 1..(Cardinality(cal) + 1) : \A e \in cal : e.id # n

\* A gateway call as recorded in calls.
Call(op, id, key, ok) == [op |-> op, id |-> id, key |-> key, ok |-> ok]

\* The page upload_pdf renders for the triple sync returned.
Render(res) == [kind |-> "message", text |-> "Sincronitzacio completada", counts |-> res]

NoShiftsPage == [kind |-> "error", text |-> "No s'han trobat torns al PDF", counts |-> <<>>]

NoResult == <<>>

\* What creds_from_dict(session.get("creds")) gives: None, a credential that
\* is not valid, or a valid one.
CredPool == {"none", "invalid", "valid"}

\* A check that takes any credential the session holds.
CredsPresent(c) == c # "none"

\* The handlers go on past "if not creds or not creds.valid".
CredsOk(c) == c # "none" /\ c = "valid"

\* The redirects to the index page with the error that asks to log in.
UploadLoginPage ==
    [kind |-> "error", text |-> "Has d'iniciar sessio per pujar un PDF", counts |-> <<>>]
PurgeLoginPage ==
    [kind |-> "error", text |-> "Has d'iniciar sessio per eliminar torns", counts |-> <<>>]

\* ------------------------------------------------------------------- Init
\* No document is being parsed.
ParseIdle ==
    /\ year = 0
    /\ target_months = {}
    /\ pages = 0
    /\ region = 0
    /\ seen = <<>>
    /\ parsed = <<>>
    /\ parse_out = <<>>
    /\ ppc = "idle"

\* No shift is being normalised.
NormIdle ==
    /\ raw = <<>>
    /\ norm = <<>>

Init ==
    /\ ParseIdle
    /\ NormIdle
    /\ creds = "valid"
    /\ calendar \in { {UntaggedEvent}, {UntaggedEvent, KeylessEvent} }
    /\ pc = "idle"
    /\ now = 0
    /\ shifts = <<>>
    /\ existing_events = <<>>
    /\ page_token = 0
    /\ by_key = <<>>
    /\ i = 1
    /\ j = 1
    /\ inserts = 0 /\ updates = 0 /\ deletes = 0
    /\ calls = <<>>
    /\ result = NoResult
    /\ outcome = [kind |-> "none", text |-> "", counts |-> <<>>]
    /\ runs = 0
    /\ before = {}
    /\ repeat = FALSE

\* Was the run now ending free of gateway failures?
Clean(cs) == \A n \in 1..Len(cs) : cs[n].ok

\* Does a run on sh repeat the run that just ended?
Repeats(sh) == pc = "done" /\ result # NoResult /\ Clean(calls) /\ sh = shifts

\* Number of calls in cs that raised HttpError.
RECURSIVE Fails(_)
Fails(cs) == IF cs = <<>> THEN 0 ELSE (IF Head(cs).ok THEN 0 ELSE 1) + Fails(Tail(cs))

\* The gateway may answer the next call with ok.
MayAnswer(ok) == ok \/ Fails(calls) < MaxFails

\* ---------------------------------------------------------------- actions
\* upload_pdf, parse_pdf returned no shift: the error page, sync is not run.
UploadNoShifts ==
    /\ CredsOk(creds)
    /\ pc \in {"idle", "done"}
    /\ runs < MaxRuns
    /\ runs' = runs + 1
    /\ repeat' = FALSE
    /\ shifts' = <<>>
    /\ calls' = <<>>
    /\ result' = NoResult
    /\ outcome' = NoShiftsPage
    /\ before' = calendar
    /\ pc' = "done"
    /\ UNCHANGED <<calendar, now, existing_events, page_token, by_key,
                   i, j, inserts, updates, deletes>>

\* An upload that runs sync on whatever parse_pdf returned.
AnyShifts(sh) == TRUE

\* not (not shifts): parse_pdf returned a list that is not empty.
HasShifts(sh) == sh # <<>>

\* upload_pdf, parse_pdf returned sh: sync(creds, sh) begins.
UploadStart(sh, t) ==
    /\ CredsOk(creds)
    /\ pc \in {"idle", "done"}
    /\ runs < MaxRuns
    /\ HasShifts(sh)
    /\ t >= now
    /\ runs' = runs + 1
    /\ repeat' = Repeats(sh)
    /\ shifts' = sh
    /\ now' = t
    /\ inserts' = 0 /\ updates' = 0 /\ deletes' = 0
    /\ existing_events' = <<>>
    /\ page_token' = 0
    /\ by_key' = <<>>
    /\ i' = 1
    /\ j' = 1
    /\ calls' = <<>>
    /\ result' = NoResult
    /\ outcome' = [kind |-> "none", text |-> "", counts |-> <<>>]
    /\ before' = calendar
    /\ pc' = "list"
    /\ UNCHANGED calendar

\* sync returns res to upload_pdf, which renders it.
Return(res) ==
    /\ result' = res
    /\ outcome' = Render(res)
    /\ pc' = "done"

\* The position after the listing loop ended with the dict d built.
AfterList(d) ==
    /\ by_key' = d
    /\ pc' = "upsert"
    /\ UNCHANGED <<result, outcome>>

\* A listing loop that, on an error, goes on with the pages fetched so far.
OnListErrorGoesOn ==
    /\ AfterList(MapByKey(existing_events, <<>>))
    /\ UNCHANGED <<existing_events, page_token, i, j>>

\* The except branch of the listing loop: return 0, 0, 0.
OnListError ==
    /\ Return(<<0, 0, 0>>)
    /\ UNCHANGED <<existing_events, page_token, by_key, i, j>>

\* One events().list(...).execute() of the fetch loop.
ListPage(ok) ==
    /\ pc = "list"
    /\ MayAnswer(ok)
    /\ calls' = Append(calls, Call("list", 0, NoKey, ok))
    /\ IF ok
       THEN LET page == PageOf(Listing(calendar, now), page_token)
                got == existing_events \o page.items
            IN /\ existing_events' = got
               /\ page_token' = page.next
               /\ IF page.next # 0
                  THEN UNCHANGED <<by_key, pc, result, outcome>>
                  ELSE AfterList(MapByKey(got, <<>>))
               /\ UNCHANGED <<i, j>>
       ELSE OnListError
    /\ UNCHANGED <<calendar, now, shifts, inserts, updates, deletes,
                   runs, before, repeat>>

\* An upsert loop that leaves out every second shift.
AfterUpsertSkipping(d) ==
    /\ i' = i + 2
    /\ IF i + 2 <= Len(shifts) THEN pc' = "upsert" /\ UNCHANGED <<result, outcome>>
       ELSE IF d # <<>> THEN pc' = "delete" /\ UNCHANGED <<result, outcome>>
       ELSE Return(<<inserts', updates', deletes'>>)

\* The position after the body of the upsert loop ran for shift i.
AfterUpsert(d) ==
    /\ i' = i + 1
    /\ IF i + 1 <= Len(shifts) THEN pc' = "upsert" /\ UNCHANGED <<result, outcome>>
       ELSE IF d # <<>> THEN pc' = "delete" /\ UNCHANGED <<result, outcome>>
       ELSE Return(<<inserts', updates', deletes'>>)

\* The dict after a patch call for key k that succeeded (ok) or raised.
AfterPatch(d, k, ok) == IF ok THEN DictDel(d, k) ELSE d

\* events().patch(eventId=by_key[key].id, body): s.key is in by_key.
Patch(ok) ==
    /\ pc = "upsert"
    /\ MayAnswer(ok)
    /\ IndexOfKey(by_key, shifts[i].key) # 0
    /\ LET s == shifts[i]
           ev_id == by_key[IndexOfKey(by_key, s.key)].ev.id
       IN /\ calls' = Append(calls, Call("patch", ev_id, s.key, ok))
          /\ calendar' = IF ok
                         THEN { IF e.id = ev_id THEN EventOf(ev_id, s) ELSE e : e \in calendar }
                         ELSE calendar
          /\ updates' = IF ok THEN updates + 1 ELSE updates
          /\ by_key' = AfterPatch(by_key, s.key, ok)
          /\ UNCHANGED <<inserts, deletes>>
          /\ AfterUpsert(by_key')
    /\ UNCHANGED <<now, shifts, existing_events, page_token, j, runs, before, repeat>>

\* events().insert(body): s.key is not in by_key.
Insert(ok) ==
    /\ pc = "upsert"
    /\ MayAnswer(ok)
    /\ IndexOfKey(by_key, shifts[i].key) = 0
    /\ LET s == shifts[i]
       IN /\ calls' = Append(calls, Call("insert", IF ok THEN NewId(calendar) ELSE 0, s.key, ok))
          /\ calendar' = IF ok THEN calendar \cup {EventOf(NewId(calendar), s)} ELSE calendar
          /\ inserts' = IF ok THEN inserts + 1 ELSE inserts
          /\ UNCHANGED <<updates, deletes, by_key>>
          /\ AfterUpsert(by_key)
    /\ UNCHANGED <<now, shifts, existing_events, page_token, j, runs, before, repeat>>

\* The delete counter after a delete call: the loop body never changes it.
DeletesAfter(n, ok) == n

\* events().delete(eventId=ev.id) for the j-th value of by_key.
Delete(ok) ==
    /\ pc = "delete"
    /\ MayAnswer(ok)
    /\ LET ev == by_key[j].ev
       IN /\ calls' = Append(calls, Call("delete", ev.id, ev.key, ok))
          /\ calendar' = IF ok THEN { e \in calendar : e.id # ev.id } ELSE calendar
          /\ deletes' = DeletesAfter(deletes, ok)
          /\ j' = j + 1
          /\ IF j + 1 <= Len(by_key) THEN UNCHANGED <<pc, result, outcome>>
             ELSE Return(<<inserts, updates, deletes'>>)
    /\ UNCHANGED <<now, shifts, existing_events, page_token, by_key, i,
                   inserts, updates, runs, before, repeat>>

Next ==
    \/ UploadNoShifts /\ UNCHANGED <<pvars, nvars, creds>>
    \/ \E sh \in ShiftLists, t \in NowPool : UploadStart(sh, t) /\ UNCHANGED <<pvars, nvars, creds>>
    \/ \E ok \in BOOLEAN : ListPage(ok) /\ UNCHANGED <<pvars, nvars, creds>>
    \/ \E ok \in BOOLEAN : Patch(ok) /\ UNCHANGED <<pvars, nvars, creds>>
    \/ \E ok \in BOOLEAN : Insert(ok) /\ UNCHANGED <<pvars, nvars, creds>>
    \/ \E ok \in BOOLEAN : Delete(ok) /\ UNCHANGED <<pvars, nvars, creds>>

Spec == Init /\ [][Next]_vars

\* ------------------------------------------------------------------ purge
\* Calendars a purge can meet: the foreign events, and events sync made for
\* the shifts of ShiftPool, one of them twice.
PurgePool ==
    { UntaggedEvent, KeylessEvent,
      EventOf(3, MkShift(1, 1, 480, 840)), EventOf(4, MkShift(1, 1, 480, 840)),
      EventOf(5, MkShift(2, 1, 1320, 300)) }

\* A listing with the time window of sync.
PurgeListingUpcoming(cal) == Listing(cal, now)

\* events().list(privateExtendedProperty="shiftUploader=1") without timeMin:
\* every tagged event, in the order of the ids.
PurgeListing(cal) == SeqOfSet({ e \in cal : e.tagged })

\* The page delete_all_shifts renders for the count delete_all_app_events
\* returned.
RenderPurge(n) ==
    [kind |-> "message",
     text |-> IF n > 0 THEN "S'han eliminat amb exit" ELSE "No s'han trobat torns",
     counts |-> <<n>>]

\* delete_all_app_events returns n to delete_all_shifts, which renders it.
PurgeReturn(n) ==
    /\ result' = <<n>>
    /\ outcome' = RenderPurge(n)
    /\ pc' = "done"

PurgeInit ==
    /\ ParseIdle
    /\ NormIdle
    /\ creds = "valid"
    /\ calendar \in SUBSET PurgePool
    /\ now \in NowPool
    /\ pc = "idle"
    /\ shifts = <<>>
    /\ existing_events = <<>>
    /\ page_token = 0
    /\ by_key = <<>>
    /\ i = 1
    /\ j = 1
    /\ inserts = 0 /\ updates = 0 /\ deletes = 0
    /\ calls = <<>>
    /\ result = NoResult
    /\ outcome = [kind |-> "none", text |-> "", counts |-> <<>>]
    /\ runs = 0
    /\ before = {}
    /\ repeat = FALSE

\* delete_all_shifts: delete_all_app_events(creds) begins; deletes holds its
\* deleted_count and existing_events its app_events.
PurgeStart ==
    /\ CredsOk(creds)
    /\ pc \in {"idle", "done"}
    /\ runs < MaxRuns
    /\ runs' = runs + 1
    /\ deletes' = 0
    /\ existing_events' = <<>>
    /\ page_token' = 0
    /\ j' = 1
    /\ calls' = <<>>
    /\ result' = NoResult
    /\ outcome' = [kind |-> "none", text |-> "", counts |-> <<>>]
    /\ before' = calendar
    /\ pc' = "purge_list"
    /\ UNCHANGED <<calendar, now, shifts, by_key, i, inserts, updates, repeat>>

\* One events().list(...).execute() of the purge's fetch loop.
PurgeListPage(ok) ==
    /\ pc = "purge_list"
    /\ MayAnswer(ok)
    /\ calls' = Append(calls, Call("list", 0, NoKey, ok))
    /\ IF ok
       THEN LET page == PageOf(PurgeListing(calendar), page_token)
                got == existing_events \o page.items
            IN /\ existing_events' = got
               /\ page_token' = page.next
               /\ IF page.next # 0 THEN UNCHANGED <<pc, result, outcome>>
                  ELSE IF got = <<>> THEN PurgeReturn(0)
                  ELSE pc' = "purge_delete" /\ UNCHANGED <<result, outcome>>
       ELSE /\ PurgeReturn(0)
            /\ UNCHANGED <<existing_events, page_token>>
    /\ UNCHANGED <<calendar, now, shifts, by_key, i, j, inserts, updates, deletes,
                   runs, before, repeat>>

\* deleted_count after a delete call that succeeded (ok) or raised.
DeletedCountAfter(n, ok) == IF ok THEN n + 1 ELSE n

\* events().delete(eventId=event.id) for the j-th of app_events.
PurgeDelete(ok) ==
    /\ pc = "purge_delete"
    /\ MayAnswer(ok)
    /\ LET ev == existing_events[j]
       IN /\ calls' = Append(calls, Call("delete", ev.id, ev.key, ok))
          /\ calendar' = IF ok THEN { e \in calendar : e.id # ev.id } ELSE calendar
          /\ deletes' = DeletedCountAfter(deletes, ok)
          /\ j' = j + 1
          /\ IF j + 1 <= Len(existing_events) THEN UNCHANGED <<pc, result, outcome>>
             ELSE PurgeReturn(deletes')
    /\ UNCHANGED <<now, shifts, existing_events, page_token, by_key, i,
                   inserts, updates, runs, before, repeat>>

PurgeNext ==
    \/ PurgeStart /\ UNCHANGED <<pvars, nvars, creds>>
    \/ \E ok \in BOOLEAN : PurgeListPage(ok) /\ UNCHANGED <<pvars, nvars, creds>>
    \/ \E ok \in BOOLEAN : PurgeDelete(ok) /\ UNCHANGED <<pvars, nvars, creds>>

SpecPurge == PurgeInit /\ [][PurgeNext]_vars

\* ------------------------------------------------------------ credentials
\* upload_pdf or delete_all_shifts without a valid credential: the redirect
\* to the index page, before anything else is done.
Denied(page) ==
    /\ ~CredsOk(creds)
    /\ pc \in {"idle", "done"}
    /\ runs < MaxRuns
    /\ runs' = runs + 1
    /\ repeat' = FALSE
    /\ shifts' = <<>>
    /\ calls' = <<>>
    /\ result' = NoResult
    /\ outcome' = page
    /\ before' = calendar
    /\ pc' = "done"
    /\ UNCHANGED <<calendar, now, existing_events, page_token, by_key,
                   i, j, inserts, updates, deletes>>

UploadDenied == Denied(UploadLoginPage)

PurgeDenied == Denied(PurgeLoginPage)

\* The session holds any of the credentials; the calendar has an event of
\* each kind.
AuthInit ==
    /\ ParseIdle
    /\ NormIdle
    /\ creds \in CredPool
    /\ calendar = {UntaggedEvent, KeylessEvent}
    /\ pc = "idle"
    /\ now = 0
    /\ shifts = <<>>
    /\ existing_events = <<>>
    /\ page_token = 0
    /\ by_key = <<>>
    /\ i = 1
    /\ j = 1
    /\ inserts = 0 /\ updates = 0 /\ deletes = 0
    /\ calls = <<>>
    /\ result = NoResult
    /\ outcome = [kind |-> "none", text |-> "", counts |-> <<>>]
    /\ runs = 0
    /\ before = {}
    /\ repeat = FALSE

AuthNext ==
    \/ UploadDenied /\ UNCHANGED <<pvars, nvars, creds>>
    \/ PurgeDenied /\ UNCHANGED <<pvars, nvars, creds>>
    \/ Next
    \/ PurgeNext

SpecAuth == AuthInit /\ [][AuthNext]_vars

\* ------------------------------------------------------------------- text
\* A text is a sequence of one-character strings; None is the cell that holds
\* no text.
None == <<"None">>

Digit == {"0", "1", "2", "3", "4", "5", "6", "7", "8", "9"}

DigitVal ==
    "0" :> 0 @@ "1" :> 1 @@ "2" :> 2 @@ "3" :> 3 @@ "4" :> 4 @@
    "5" :> 5 @@ "6" :> 6 @@ "7" :> 7 @@ "8" :> 8 @@ "9" :> 9

DigitChar == <<"0", "1", "2", "3", "4", "5", "6", "7", "8", "9">>

Space == {" ", "\n"}

RECURSIVE LStrip(_)
LStrip(t) == IF t # <<>> /\ Head(t) \in Space THEN LStrip(Tail(t)) ELSE t

RECURSIVE RStrip(_)
RStrip(t) ==
    IF t # <<>> /\ t[Len(t)] \in Space THEN RStrip(SubSeq(t, 1, Len(t) - 1)) ELSE t

\* str.strip()
Strip(t) == RStrip(LStrip(t))

\* str.replace(c, '')
Without(t, c) == SelectSeq(t, LAMBDA x : x # c)

\* re.fullmatch(r"(\d{1,2}):(\d{2})", t)
IsTimeText(t) ==
    /\ Len(t) \in {4, 5}
    /\ t[Len(t) - 2] = ":"
    /\ \A k \in (1..Len(t)) \ {Len(t) - 2} : t[k] \in Digit

\* The number a run of digits denotes.
RECURSIVE NumberOf(_)
NumberOf(t) ==
    IF t = <<>> THEN 0
    ELSE 10 * NumberOf(SubSeq(t, 1, Len(t) - 1)) + DigitVal[t[Len(t)]]

\* n written with at least w digits (the formats %Y, %m, %d and isoformat).
RECURSIVE Digits(_, _)
Digits(n, w) ==
    IF n < 10 /\ w <= 1 THEN <<DigitChar[n + 1]>>
    ELSE Digits(n \div 10, w - 1) \o <<DigitChar[(n % 10) + 1]>>

\* A time text that matched the pattern and that datetime.fromisoformat
\* takes after "T": two digits of hour, at most 23, and at most 59 minutes.
\* On any other it raises ValueError.
IsoTimeOk(t) ==
    /\ Len(t) = 5
    /\ NumberOf(SubSeq(t, 1, 2)) <= 23
    /\ NumberOf(SubSeq(t, 4, 5)) <= 59

\* Minutes since midnight of a time text fromisoformat takes.
TimeValue(t) == NumberOf(SubSeq(t, 1, 2)) * 60 + NumberOf(SubSeq(t, 4, 5))

\* -------------------------------------------------------------------- dates
\* A date is <<year, month, day>>.
IsLeap(y) == (y % 4 = 0 /\ y % 100 # 0) \/ y % 400 = 0

\* Length of a month in datetime's calendar.
LengthOfMonth(y, m) ==
    IF m = 2 THEN (IF IsLeap(y) THEN 29 ELSE 28)
    ELSE IF m \in {4, 6, 9, 11} THEN 30 ELSE 31

RECURSIVE DaysBeforeMonth(_, _)
DaysBeforeMonth(y, m) ==
    IF m = 1 THEN 0 ELSE DaysBeforeMonth(y, m - 1) + LengthOfMonth(y, m - 1)

\* date.toordinal(): the number of the day, counted from 0001-01-01.
DayNumber(d) ==
    LET p == d[1] - 1
    IN p * 365 + (p \div 4) - (p \div 100) + (p \div 400) + DaysBeforeMonth(d[1], d[2]) + d[3]

\* date.isoformat(): "YYYY-MM-DD".
IsoDate(d) == Digits(d[1], 4) \o <<"-">> \o Digits(d[2], 2) \o <<"-">> \o Digits(d[3], 2)

\* The date fromisoformat reads back from "YYYY-MM-DD".
ParseIsoDate(t) ==
    <<NumberOf(SubSeq(t, 1, 4)), NumberOf(SubSeq(t, 6, 7)), NumberOf(SubSeq(t, 9, 10))>>

\* ------------------------------------------------------ add_shift_if_valid
\* A key that leaves the shift slot out.
KeyTextNoSlot(date_obj, shift_type_idx, start_str, end_str) ==
    Digits(date_obj[1], 4) \o Digits(date_obj[2], 2) \o Digits(date_obj[3], 2)
        \o <<"-">> \o Without(start_str, ":") \o <<"-">> \o Without(end_str, ":")

\* f"{date_obj:%Y%m%d}-{shift_type_idx}-{start_str.replace(':','')}-{end_str.replace(':','')}"
KeyText(date_obj, shift_type_idx, start_str, end_str) ==
    Digits(date_obj[1], 4) \o Digits(date_obj[2], 2) \o Digits(date_obj[3], 2)
        \o <<"-">> \o Digits(shift_type_idx, 1)
        \o <<"-">> \o Without(start_str, ":") \o <<"-">> \o Without(end_str, ":")

\* A text Python takes for true and that matches the time pattern.
IsValidCell(s) == s # None /\ s # <<>> /\ IsTimeText(s)

\* add_shift_if_valid(start_str, end_str, date_obj, shift_type_idx): the
\* records it appends to shifts, none or one.
AddShiftIfValid(start_str, end_str, date_obj, shift_type_idx) ==
    IF IsValidCell(start_str) /\ IsValidCell(end_str)
    THEN IF IsoTimeOk(start_str) /\ IsoTimeOk(end_str)
         THEN << [key |-> KeyText(date_obj, shift_type_idx, start_str, end_str),
                  date |-> IsoDate(date_obj),
                  start |-> start_str,
                  end |-> end_str] >>
         ELSE <<>>
    ELSE <<>>

\* The shift as sync reads it: fromisoformat(f"{s['date']}T{s['start']}") and
\* the same for the end, as day number and minutes.
SyncShift(rec) ==
    [key |-> rec.key,
     date |-> DayNumber(ParseIsoDate(rec.date)),
     start |-> TimeValue(rec.start),
     end |-> TimeValue(rec.end)]

\* Time texts of raw shifts: 08:00, 8:00, 22:00, 05:00, 25:00.
NormTexts ==
    { <<"0", "8", ":", "0", "0">>, <<"8", ":", "0", "0">>, <<"2", "2", ":", "0", "0">>,
      <<"0", "5", ":", "0", "0">>, <<"2", "5", ":", "0", "0">> }

\* Dates of raw shifts, among them the last day of a month and of a year.
NormDates == { <<2024, 2, 29>>, <<2024, 3, 10>>, <<2023, 12, 31>> }

RawShifts == [start : NormTexts, end : NormTexts, date : NormDates, slot : {1, 2}]

\* What add_shift_if_valid makes of the raw shift r, and the event sync makes
\* of the record.
NormOf(r) ==
    LET out == AddShiftIfValid(r.start, r.end, r.date, r.slot)
    IN [shifts |-> out,
        events |-> IF out = <<>> THEN <<>> ELSE <<EventOf(1, SyncShift(out[1]))>>]

\* No upload and no purge is under way, the calendar is empty and the
\* session holds a valid credential.
SyncIdle ==
    /\ creds = "valid"
    /\ calendar = {}
    /\ now = 0
    /\ pc = "idle"
    /\ shifts = <<>>
    /\ existing_events = <<>>
    /\ page_token = 0
    /\ by_key = <<>>
    /\ i = 1
    /\ j = 1
    /\ inserts = 0 /\ updates = 0 /\ deletes = 0
    /\ calls = <<>>
    /\ result = NoResult
    /\ outcome = [kind |-> "none", text |-> "", counts |-> <<>>]
    /\ runs = 0
    /\ before = {}
    /\ repeat = FALSE

NormInit ==
    /\ SyncIdle
    /\ ParseIdle
    /\ raw \in RawShifts \X RawShifts
    /\ norm = <<>>

\* The two raw shifts are normalised.
Normalise ==
    /\ norm = <<>>
    /\ norm' = <<NormOf(raw[1]), NormOf(raw[2])>>
    /\ UNCHANGED <<raw, svars, pvars, creds>>

NormNext == Normalise

SpecNorm == NormInit /\ [][NormNext]_vars

\* ---------------------------------------------------------------- parse_pdf
\* MONTH_DATA_BOUNDING_BOXES with MONTH_MAP: the months that have a region on
\* each page, by number, in the order the loops visit them.
MONTH_DATA_BOUNDING_BOXES == << <<1, 2, 3>>, <<4, 5, 6, 7>>, <<8, 9, 10, 11>>, <<12>> >>

\* The months whose regions a document of n pages has, in the order of the
\* loops over pages and regions.
RECURSIVE Regions(_)
Regions(n) == IF n = 0 THEN <<>> ELSE Regions(n - 1) \o MONTH_DATA_BOUNDING_BOXES[n]

\* A cell Python takes for true: neither None nor ''.
Truthy(cell) == cell # None /\ cell # <<>>

\* Characters \w matches.
WordChar == Digit \cup {"E", "S", "_"}

\* re.search(r'\b\d+\b', t): t holds a run of digits with no word character
\* on either side.
HasInteger(t) ==
    \E a \in 1..Len(t) : \E b \in a..Len(t) :
        /\ \A k \in a..b : t[k] \in Digit
        /\ (a = 1 \/ t[a - 1] \notin WordChar)
        /\ (b = Len(t) \/ t[b + 1] \notin WordChar)

\* table_data[r] if len(table_data) > r else []
RowAt(table_data, r) == IF Len(table_data) > r THEN table_data[r + 1] ELSE <<>>

\* row[col_idx].strip() if len(row) > col_idx and row[col_idx] else None
CellAt(row, col_idx) ==
    IF Len(row) > col_idx /\ Truthy(row[col_idx + 1]) THEN Strip(row[col_idx + 1]) ELSE None

Max(S) == CHOOSE x \in S : \A y \in S : y <= x
Min(S) == CHOOSE x \in S : \A y \in S : x <= y

\* The index at which a search loop breaks: the first of the columns S that
\* pass its test, or -1 when none does.
FirstCol(S) == IF S = {} THEN -1 ELSE Min(S)

\* A month that always has 31 days.
NumDaysAlways(y, m) == 31

\* (dt.date(year, int(month_num_str) % 12 + 1, 1) - dt.timedelta(days=1)).day:
\* the last day of the month before the first of month m % 12 + 1 of the year.
NumDaysInMonth(y, m) ==
    LET next == (m % 12) + 1
    IN IF next = 1 THEN LengthOfMonth(y - 1, 12) ELSE LengthOfMonth(y, next - 1)

\* start_day_col: the first cell of row 0 that holds an integer.
StartDayCol(table_data) ==
    LET day_row == RowAt(table_data, 0)
    IN FirstCol({ c \in 0..(Len(day_row) - 1) :
                    Truthy(day_row[c + 1]) /\ HasInteger(day_row[c + 1]) })

\* first_data_col_idx: the first column whose row-1 or row-4 cell is a time.
FirstDataColIdx(table_data) ==
    LET shift1_start_row == RowAt(table_data, 1)
        shift2_start_row == RowAt(table_data, 4)
        max_cols == Max({ Len(RowAt(table_data, r)) : r \in {0, 1, 2, 4, 5} })
        IsTime(row, c) ==
            /\ Len(row) > c
            /\ IsTimeText(Strip(IF row[c + 1] = None THEN <<>> ELSE row[c + 1]))
    IN FirstCol({ c \in 0..(max_cols - 1) :
                    IsTime(shift1_start_row, c) \/ IsTime(shift2_start_row, c) })

\* data_col_start_idx: the first cell of row 1 that is not blank.
DataColStartIdx(table_data) ==
    LET shift1_start_row == RowAt(table_data, 1)
    IN FirstCol({ c \in 0..(Len(shift1_start_row) - 1) :
                    Truthy(shift1_start_row[c + 1]) /\ Strip(shift1_start_row[c + 1]) # <<>> })

\* The two calls of add_shift_if_valid for column col_idx and day day_num.
ColumnShifts(y, m, table_data, col_idx, day_num) ==
    AddShiftIfValid(CellAt(RowAt(table_data, 1), col_idx), CellAt(RowAt(table_data, 2), col_idx),
                    <<y, m, day_num>>, 1)
    \o AddShiftIfValid(CellAt(RowAt(table_data, 4), col_idx), CellAt(RowAt(table_data, 5), col_idx),
                       <<y, m, day_num>>, 2)

\* The loop over col_offset, from offset k on: column data_col_start_idx + k
\* is day k + 1, up to max_data_cols and to the number of days of the month.
RECURSIVE ColumnLoop(_, _, _, _)
ColumnLoop(y, m, table_data, k) ==
    LET max_data_cols == Min({ Len(RowAt(table_data, r)) : r \in {1, 2, 4, 5} })
        col_idx == DataColStartIdx(table_data) + k
    IN IF k >= max_data_cols - DataColStartIdx(table_data) \/ k + 1 > NumDaysInMonth(y, m)
       THEN <<>>
       ELSE ColumnShifts(y, m, table_data, col_idx, k + 1) \o ColumnLoop(y, m, table_data, k + 1)

\* The loop over day_num: its body, which holds the loop over col_offset,
\* runs once for every day of the month and appends the same records each
\* time.
RECURSIVE DayLoop(_, _)
DayLoop(body, n) == IF n = 0 THEN <<>> ELSE DayLoop(body, n - 1) \o body

\* What the table of month m appends to shifts.
TableShifts(y, m, table_data) ==
    IF StartDayCol(table_data) = -1 THEN <<>>
    ELSE LET body == IF FirstDataColIdx(table_data) = -1 \/ DataColStartIdx(table_data) = -1
                     THEN <<>>
                     ELSE ColumnLoop(y, m, table_data, 0)
         IN DayLoop(body, NumDaysInMonth(y, m))

\* What page_obj.crop(bbox) and extract_tables give for a region: crop raises,
\* or there is a list of tables.
CropRaises == [raised |-> TRUE, tables |-> <<>>]
NoTables == [raised |-> FALSE, tables |-> <<>>]
Extracted(table_data) == [raised |-> FALSE, tables |-> <<table_data>>]

\* An extraction that leaves parse_pdf through its except branch also when it
\* finds no table.
AbortsOnNoTable(x) == x.raised \/ x.tables = <<>>

\* The extraction raises: parse_pdf leaves through its except branch.
Aborts(x) == x.raised

\* What the region of month m appends to shifts, given its extraction.
RegionShifts(y, m, x) == IF x.tables = <<>> THEN <<>> ELSE TableShifts(y, m, x.tables[1])

\* A filter that takes an empty list of months to select no month.
SelectedStrict(m, target) == m \in target

\* not (target_months and month_name not in target_months): the month is
\* read, either because no month is asked for (None or an empty list, both
\* the empty set here) or because it is among those asked for.
Selected(m, target) == ~(target # {} /\ m \notin target)

\* The region of the loop's position is not among the months asked for.
SkipRegion ==
    /\ ppc = "regions"
    /\ region <= Len(Regions(pages))
    /\ ~Selected(Regions(pages)[region], target_months)
    /\ region' = region + 1
    /\ UNCHANGED <<year, target_months, pages, seen, parsed, parse_out, ppc>>

\* The region of the loop's position is cropped, its tables are extracted
\* and the first of them is read; x is what the extraction gives.
ParseRegion(x) ==
    /\ ppc = "regions"
    /\ region <= Len(Regions(pages))
    /\ Selected(Regions(pages)[region], target_months)
    /\ seen' = Append(seen, [month |-> Regions(pages)[region], got |-> x])
    /\ IF Aborts(x)
       THEN /\ parse_out' = <<>>
            /\ ppc' = "returned"
            /\ UNCHANGED <<region, parsed>>
       ELSE /\ parsed' = parsed \o RegionShifts(year, Regions(pages)[region], x)
            /\ region' = region + 1
            /\ UNCHANGED <<parse_out, ppc>>
    /\ UNCHANGED <<year, target_months, pages>>

\* The loops are over: parse_pdf returns shifts.
FinishParse ==
    /\ ppc = "regions"
    /\ region > Len(Regions(pages))
    /\ parse_out' = parsed
    /\ ppc' = "returned"
    /\ UNCHANGED <<year, target_months, pages, region, seen, parsed>>

\* Columns of a table, from row 0 to row 5: a day with a first shift 08:00
\* to 14:00; the label column; a day with an overnight first shift, padded
\* with blanks, and a second shift; a day without shifts; a day whose cells
\* hold two times each; a day with a second shift only.
ColDay ==
    << <<"1">>, <<"0", "8", ":", "0", "0">>, <<"1", "4", ":", "0", "0">>, None, None, None >>
ColLabel == << None, <<"E">>, <<"S">>, None, <<"E">>, <<"S">> >>
ColNight ==
    << <<"1">>, <<" ", "2", "2", ":", "0", "0">>, <<"0", "5", ":", "0", "0", "\n">>, None,
       <<"1", "6", ":", "0", "0">>, <<"2", "0", ":", "0", "0">> >>
ColBlank == << <<"1">>, None, <<>>, None, None, None >>
ColMulti ==
    << <<"1">>, <<"1", "9", ":", "0", "0", " ", "2", "0", ":", "5", "0">>,
       <<"2", "0", ":", "0", "0", " ", "2", "3", ":", "0", "0">>, None, None, None >>
ColSecond ==
    << <<"1">>, None, None, None, <<"1", "6", ":", "0", "0">>, <<"2", "0", ":", "0", "0">> >>

\* A day column whose row-0 cell holds no integer.
ColNoDay ==
    << <<"E">>, <<"0", "8", ":", "0", "0">>, <<"1", "4", ":", "0", "0">>, None, None, None >>

ColumnPool == { ColDay, ColLabel, ColNight, ColBlank, ColMulti, ColSecond }

\* The table of six rows that has the given columns.
TableOf(cols) == [r \in 1..6 |-> [c \in 1..Len(cols) |-> cols[c][r]]]

\* The first n rows of a table.
TakeRows(table_data, n) == SubSeq(table_data, 1, n)

\* The table with rows 4 and 5 cut to their first n cells.
ShortSlotTwo(table_data, n) ==
    [r \in 1..Len(table_data) |->
        IF r \in {5, 6} THEN SubSeq(table_data[r], 1, n) ELSE table_data[r]]

\* Tables of up to MaxCols columns, tables of three rows, a table whose
\* rows 4 and 5 are shorter than the others, a table without a day axis,
\* and tables wider than any month is long, with and without a label
\* column.
TablePool ==
    { TableOf(cols) : cols \in UNION { [1..n -> ColumnPool] : n \in 1..MaxCols } }
    \cup { TakeRows(TableOf(<<c>>), 3) : c \in ColumnPool }
    \cup { ShortSlotTwo(TableOf(<<ColNight, ColDay>>), 1) }
    \cup { TableOf(<<ColNoDay>>) }
    \cup { TableOf([c \in 1..WideCols |-> ColDay]),
           TableOf([c \in 1..WideCols |-> IF c = 1 THEN ColLabel ELSE ColDay]) }

ParsePool == { CropRaises, NoTables } \cup { Extracted(tb) : tb \in TablePool }

\* Year, months asked for and pages: February of a common and of a leap
\* year in a document of one page, and December in one of four.
ParseInputs == { <<2023, {2}, 1>>, <<2024, {2}, 1>>, <<2024, {12}, 4>> }

\* parse_pdf has opened a document and read its year; one month is asked
\* for.
ParseInit ==
    /\ SyncIdle
    /\ NormIdle
    /\ \E inp \in ParseInputs : year = inp[1] /\ target_months = inp[2] /\ pages = inp[3]
    /\ region = 1
    /\ seen = <<>>
    /\ parsed = <<>>
    /\ parse_out = <<>>
    /\ ppc = "regions"

ParseNext ==
    \/ SkipRegion /\ UNCHANGED <<svars, nvars, creds>>
    \/ (\E x \in ParsePool : ParseRegion(x)) /\ UNCHANGED <<svars, nvars, creds>>
    \/ FinishParse /\ UNCHANGED <<svars, nvars, creds>>

SpecParse == ParseInit /\ [][ParseNext]_vars

\* What the regions of a whole document give: crop raises, no table, a table
\* without a day axis, a table with one shift.
DocPool == { CropRaises, NoTables, Extracted(TableOf(<<ColNoDay>>)), Extracted(TableOf(<<ColDay>>)) }

DocYears == { 2023, 2024 }

\* parse_pdf has opened a document of up to MaxPages pages and read its
\* year; all months are asked for.
DocInit ==
    /\ SyncIdle
    /\ NormIdle
    /\ year \in DocYears
    /\ target_months = {}
    /\ pages \in 1..MaxPages
    /\ region = 1
    /\ seen = <<>>
    /\ parsed = <<>>
    /\ parse_out = <<>>
    /\ ppc = "regions"

DocNext ==
    \/ (\E x \in DocPool : ParseRegion(x)) /\ UNCHANGED <<svars, nvars, creds>>
    \/ FinishParse /\ UNCHANGED <<svars, nvars, creds>>

SpecDoc == DocInit /\ [][DocNext]_vars

\* Months asked for: none, one, two that are not neighbours, and one whose
\* page the documents do not have.
FilterTargets == { {}, {2}, {1, 3}, {12} }

\* parse_pdf has opened a document of up to MaxPages pages and read its
\* year; target_months is any of FilterTargets.
FilterInit ==
    /\ SyncIdle
    /\ NormIdle
    /\ year \in DocYears
    /\ target_months \in FilterTargets
    /\ pages \in 1..MaxPages
    /\ region = 1
    /\ seen = <<>>
    /\ parsed = <<>>
    /\ parse_out = <<>>
    /\ ppc = "regions"

FilterNext ==
    \/ SkipRegion /\ UNCHANGED <<svars, nvars, creds>>
    \/ (\E x \in DocPool : ParseRegion(x)) /\ UNCHANGED <<svars, nvars, creds>>
    \/ FinishParse /\ UNCHANGED <<svars, nvars, creds>>

SpecFilter == FilterInit /\ [][FilterNext]_vars

\* ----------------------------------------------------- vocabulary of claims
\* The event has no private extended property "key".
Keyless(e) == e.key = NoKey

\* sync returned.
Returned == pc = "done" /\ result # NoResult

\* A page of the listing raised HttpError in the current run.
ListFailed == \E n \in 1..Len(calls) : calls[n].op = "list" /\ ~calls[n].ok

\* sync returned after its three phases ran.
Completed == Returned /\ ~ListFailed

KeysOf(sh) == { sh[n].key : n \in 1..Len(sh) }

\* Positions in calls of the calls of the given operations.
CallsOf(ops) == { n \in 1..Len(calls) : calls[n].op \in ops }

\* Number of calls of operation op that succeeded.
Succeeded(op) == Cardinality({ n \in CallsOf({op}) : calls[n].ok })

IsUpsert(c) == c.op \in {"insert", "patch"}

\* The insert and patch calls of the run, in order.
UpsertCalls == SelectSeq(calls, IsUpsert)

\* Keys of the events the fetch phase returned.
FetchedKeys == { existing_events[n].key : n \in 1..Len(existing_events) } \ {NoKey}

\* The upcoming tagged events of the calendar that carry key k.
UpcomingWithKey(k) == { e \in calendar : e.tagged /\ e.start >= now /\ e.key = k }

\* ------------------------------------------------------------------ claims
\* Every shift of the list starts at or after the moment the run began.
AllUpcoming(sh) == \A n \in 1..Len(sh) : BodyStart(sh[n]) >= now

\* C1: after a sync run in which no gateway call failed, the upcoming events
\* tagged shiftUploader=1 mirror the shift list: exactly one tagged upcoming
\* event per shift key, and no tagged upcoming event with a key absent from the
\* shift list.  Stated for the shift lists whose shifts are all upcoming, the
\* case in which an event made for a shift is itself an upcoming event.
C1_CalendarMirrorsShifts ==
    (Completed /\ Clean(calls) /\ AllUpcoming(shifts)) =>
        /\ \A k \in KeysOf(shifts) : Cardinality(UpcomingWithKey(k)) = 1
        /\ \A e \in calendar :
              (e.tagged /\ e.start >= now /\ ~Keyless(e)) => e.key \in KeysOf(shifts)

\* C2: a run that repeats the shift list of the failure-free run before it,
\* itself without failures, returns zero inserts, updates equal to the number
\* of shifts, zero deletes, and issues no insert and no delete call.
C2_SecondRunOnlyUpdates ==
    (Completed /\ Clean(calls) /\ repeat) =>
        /\ result = <<0, Len(shifts), 0>>
        /\ CallsOf({"insert", "delete"}) = {}

\* C3: a fetched event whose key K no shift of the run has gets exactly one
\* delete call for its id, and no insert or patch call of the run carries K.
C3_DeletionCompleteness ==
    Completed =>
        \A m \in 1..Len(existing_events) :
            LET e == existing_events[m]
            IN (~Keyless(e) /\ e.key \notin KeysOf(shifts)) =>
                  /\ Cardinality({ n \in CallsOf({"delete"}) : calls[n].id = e.id }) = 1
                  /\ \A n \in CallsOf({"insert", "patch"}) : calls[n].key # e.key

\* C4: the triple sync returns after its three phases counts the insert, patch
\* and delete calls that succeeded.
C4_CountersCountSuccesses ==
    Completed =>
        result = <<Succeeded("insert"), Succeeded("patch"), Succeeded("delete")>>

\* C5: sync issues a delete only for an event whose key no shift of the run
\* has; a failed patch does not get its event deleted.
C5_DeleteOnlyUnmatched ==
    \A n \in CallsOf({"delete"}) : calls[n].key \notin KeysOf(shifts)

\* C6: for every key a run makes at most one insert that creates an event,
\* and no two events of the calendar carry the same key.
C6_OneEventPerKey ==
    /\ \A k \in KeysOf(shifts) :
          Cardinality({ n \in CallsOf({"insert"}) : calls[n].ok /\ calls[n].key = k }) <= 1
    /\ \A e1, e2 \in calendar :
          (~Keyless(e1) /\ e1.key = e2.key) => e1 = e2

\* C7: when exactly one insert or patch call of a run fails, every shift still
\* gets its call, every other shift is patched if its key was fetched and
\* inserted otherwise, the delete phase runs over what is left in by_key, and
\* the insert and update counters count the calls that succeeded.
C7_PartialFailureIsolation ==
    (Returned /\ Cardinality({ n \in CallsOf({"insert", "patch"}) : ~calls[n].ok }) = 1) =>
        /\ Len(UpsertCalls) = Len(shifts)
        /\ \A n \in 1..Len(UpsertCalls) :
              /\ UpsertCalls[n].key = shifts[n].key
              /\ UpsertCalls[n].ok =>
                    UpsertCalls[n].op =
                        (IF shifts[n].key \in FetchedKeys THEN "patch" ELSE "insert")
        /\ Cardinality(CallsOf({"delete"})) = Len(by_key)
        /\ result[1] = Succeeded("insert")
        /\ result[2] = Succeeded("patch")

\* C8: once a page of the listing has failed, sync has returned (0, 0, 0), the
\* run has issued nothing but list calls, and the calendar is as it was when
\* the run began.
C8_ListFailureAborts ==
    ListFailed =>
        /\ pc = "done"
        /\ result = <<0, 0, 0>>
        /\ CallsOf({"insert", "patch", "delete"}) = {}
        /\ calendar = before

\* A run aborted by the failure of a page after the first, with an event of
\* this program in the calendar and a shift list to reconcile.
C8_Witness ==
    /\ ListFailed
    /\ Len(calls) >= 2
    /\ pc = "done"
    /\ shifts # <<>>
    /\ \E e \in calendar : ~Keyless(e)

\* C9: a run aborted by a listing failure is reported to the caller of the
\* upload operation as an error.
C9_ListFailureSurfaced ==
    (Returned /\ ListFailed) => outcome.kind = "error"

\* C10: an event of the tagged listing that has no key is never the target of
\* a patch or a delete call, and stays in the calendar as it was.
C10_KeylessUntouched ==
    \A e \in before :
        (e.tagged /\ Keyless(e)) =>
            /\ e \in calendar
            /\ \A n \in CallsOf({"patch", "delete"}) : calls[n].id # e.id

\* A run that fetched the keyless tagged event, patched one event and deleted
\* another.
C10_Witness ==
    /\ Completed
    /\ \E m \in 1..Len(existing_events) : existing_events[m] = KeylessEvent
    /\ \E n \in CallsOf({"patch"}) : calls[n].ok
    /\ \E n \in CallsOf({"delete"}) : calls[n].ok

\* C11: a purge whose listing succeeded issues exactly one delete for every
\* tagged event of the calendar, past or upcoming, keyed or not, and for no
\* other event; it issues no insert and no patch; a failed delete leaves the
\* later deletes in place; the integer returned counts the deletes that
\* succeeded, and exactly the events whose delete succeeded are gone.
C11_PurgeDeletesAllTagged ==
    (pc = "done" /\ result # NoResult /\ ~ListFailed) =>
        /\ \A e \in before :
              Cardinality({ n \in CallsOf({"delete"}) : calls[n].id = e.id })
                  = (IF e.tagged THEN 1 ELSE 0)
        /\ CallsOf({"insert", "patch"}) = {}
        /\ result = <<Succeeded("delete")>>
        /\ calendar = { e \in before :
                          ~\E n \in CallsOf({"delete"}) : calls[n].ok /\ calls[n].id = e.id }

\* A purge that deleted a past event and the keyless tagged event, after a
\* delete of it had failed.
C11_Witness ==
    /\ pc = "done" /\ result # NoResult /\ ~ListFailed
    /\ \E a, b, c \in CallsOf({"delete"}) :
          /\ a < b /\ ~calls[a].ok /\ calls[b].ok
          /\ calls[c].ok /\ calls[c].id = KeylessEvent.id
    /\ \E e \in before : e.tagged /\ e.start < now /\ e \notin calendar

\* The date after d in the calendar.
NextDay(d) ==
    IF d[3] < LengthOfMonth(d[1], d[2]) THEN <<d[1], d[2], d[3] + 1>>
    ELSE IF d[2] < 12 THEN <<d[1], d[2] + 1, 1>>
    ELSE <<d[1] + 1, 1, 1>>

\* Minutes since midnight of the time text hh:mm.
Minutes(t) ==
    (DigitVal[t[1]] * 10 + DigitVal[t[2]]) * 60 + DigitVal[t[4]] * 10 + DigitVal[t[5]]

\* C12: the event of an accepted shift of date D starts on D at the start
\* time; it ends on the day after D at the end time when the end time is
\* before the start time, and on D at the end time otherwise, the end time
\* equal to the start time included.
C12_OvernightRule ==
    \A k \in 1..Len(norm) :
        norm[k].events # <<>> =>
            LET D == raw[k].date
                s == Minutes(raw[k].start)
                e == Minutes(raw[k].end)
                ev == norm[k].events[1]
            IN /\ ev.start = DayNumber(D) * 1440 + s
               /\ ev.end = (IF e < s THEN DayNumber(NextDay(D)) ELSE DayNumber(D)) * 1440 + e

\* An overnight shift on the last day of a month next to a shift that ends
\* when it starts.
C12_Witness ==
    /\ Len(norm) = 2
    /\ norm[1].events # <<>> /\ norm[2].events # <<>>
    /\ Minutes(raw[1].end) < Minutes(raw[1].start)
    /\ raw[1].date = <<2024, 2, 29>>
    /\ raw[2].end = raw[2].start

\* C13: two accepted shifts that differ in date, slot, start or end have
\* different keys, and two that agree in all four have the same key.
C13_KeyInjective ==
    (Len(norm) = 2 /\ norm[1].shifts # <<>> /\ norm[2].shifts # <<>>) =>
        (norm[1].shifts[1].key = norm[2].shifts[1].key <=> raw[1] = raw[2])

\* Two accepted shifts that differ in the slot alone.
C13_Witness ==
    /\ Len(norm) = 2 /\ norm[1].shifts # <<>> /\ norm[2].shifts # <<>>
    /\ raw[1].slot # raw[2].slot
    /\ [raw[1] EXCEPT !.slot = raw[2].slot] = raw[2]

\* The time text with its hour written in two digits.
Padded(t) == IF Len(t) = 4 THEN <<"0">> \o t ELSE t

\* C20: a raw shift whose times have a one-digit or two-digit hour and are
\* times of the day is accepted, and is emitted with both times as HH:MM.
C20_HourZeroPadded ==
    \A k \in 1..Len(norm) :
        (Minutes(Padded(raw[k].start)) < 1440 /\ Minutes(Padded(raw[k].end)) < 1440) =>
            /\ norm[k].shifts # <<>>
            /\ norm[k].shifts[1].start = Padded(raw[k].start)
            /\ norm[k].shifts[1].end = Padded(raw[k].end)

\* Day and slot of an emitted record, read from its date and its key.
DayOf(rec) == ParseIsoDate(rec.date)[3]
MonthOf(rec) == ParseIsoDate(rec.date)[2]
YearOf(rec) == ParseIsoDate(rec.date)[1]
SlotOf(rec) == DigitVal[rec.key[10]]

\* Days of month m of year y in the Gregorian calendar.
GregorianDays(y, m) ==
    IF m \in {1, 3, 5, 7, 8, 10, 12} THEN 31
    ELSE IF m \in {4, 6, 9, 11} THEN 30
    ELSE IF y % 400 = 0 \/ (y % 4 = 0 /\ y % 100 # 0) THEN 29 ELSE 28

\* parse_pdf returned without leaving through its except branch.
ParseCompleted == ppc = "returned" /\ \A k \in 1..Len(seen) : ~seen[k].got.raised

\* C14: every emitted shift is dated in the month of its region, on a day
\* from 1 to the number of days that month has in the document's year;
\* columns beyond the last day give nothing.
C14_DayWithinMonth ==
    ParseCompleted =>
        \A n \in 1..Len(parse_out) :
            /\ YearOf(parse_out[n]) = year
            /\ \E k \in 1..Len(seen) : seen[k].month = MonthOf(parse_out[n])
            /\ DayOf(parse_out[n]) \in 1..GregorianDays(year, MonthOf(parse_out[n]))

\* A table with more columns than the month has days was parsed, and the
\* last day of the month, 29 February or 31 December, has a shift.
C14_Witness ==
    /\ ParseCompleted
    /\ \E k \in 1..Len(seen) :
          /\ seen[k].got.tables # <<>>
          /\ Len(seen[k].got.tables[1][2]) > 31 + 1
          /\ \E n \in 1..Len(parse_out) :
                /\ MonthOf(parse_out[n]) = seen[k].month
                /\ DayOf(parse_out[n]) = GregorianDays(year, seen[k].month)
                /\ <<MonthOf(parse_out[n]), DayOf(parse_out[n])>> \in {<<2, 29>>, <<12, 31>>}

\* C15: the returned list holds no two records with the same date, slot,
\* start and end.
C15_NoDuplicateRecords ==
    ParseCompleted =>
        \A a, b \in 1..Len(parse_out) :
            (a # b) => parse_out[a] # parse_out[b]

\* The tables parse_pdf read, with the months of their regions.
TablesRead == { k \in 1..Len(seen) : seen[k].got.tables # <<>> }
TableRead(k) == seen[k].got.tables[1]

\* The stripped text of the cell of row r and column c (both counted from
\* 0), the empty text where the table has no such cell or the cell no text.
TextAt(tb, r, c) ==
    IF r < Len(tb) /\ c < Len(tb[r + 1]) /\ tb[r + 1][c + 1] # None
    THEN Strip(tb[r + 1][c + 1])
    ELSE <<>>

\* A text of the form H:MM or HH:MM.
MatchesTime(tx) ==
    /\ Len(tx) \in {4, 5}
    /\ tx[Len(tx) - 2] = ":"
    /\ \A k \in 1..Len(tx) : k # Len(tx) - 2 => tx[k] \in Digit

\* The columns of row 1 or row 4 that hold a time.
TimeColumns(tb) ==
    { c \in 0..WideCols : MatchesTime(TextAt(tb, 1, c)) \/ MatchesTime(TextAt(tb, 4, c)) }

\* The rows of the start and of the end of a slot.
StartRow(slot) == IF slot = 1 THEN 1 ELSE 4
EndRow(slot) == IF slot = 1 THEN 2 ELSE 5

\* C16: every emitted shift of day d has the start and end texts of the
\* column first_data_column + (d - 1), where first_data_column is the
\* leftmost column whose row-1 or row-4 cell is a time.
C16_ColumnAlignment ==
    ParseCompleted =>
        \A k \in TablesRead : \A n \in 1..Len(parse_out) :
            MonthOf(parse_out[n]) = seen[k].month =>
                /\ TimeColumns(TableRead(k)) # {}
                /\ LET first_data_column == Min(TimeColumns(TableRead(k)))
                       col == first_data_column + (DayOf(parse_out[n]) - 1)
                   IN /\ parse_out[n].start = TextAt(TableRead(k), StartRow(SlotOf(parse_out[n])), col)
                      /\ parse_out[n].end = TextAt(TableRead(k), EndRow(SlotOf(parse_out[n])), col)

\* The whitespace-separated parts of a text.
RECURSIVE Tokens(_)
Tokens(tx) ==
    LET s == LStrip(tx)
        n == IF \E k \in 1..Len(s) : s[k] \in Space
             THEN Min({ k \in 1..Len(s) : s[k] \in Space }) - 1
             ELSE Len(s)
    IN IF s = <<>> THEN <<>> ELSE <<SubSeq(s, 1, n)>> \o Tokens(SubSeq(s, n + 1, Len(s)))

\* A time of the day written HH:MM.
IsClockText(tx) == MatchesTime(tx) /\ Len(tx) = 5 /\ Minutes(tx) < 1440 /\ DigitVal[tx[4]] < 6

\* C17: a column whose start cell and end cell hold the same number of
\* times, two or more, gives a shift for every pair of the i-th start and
\* the i-th end.
C17_MultiTimeCells ==
    ParseCompleted =>
        \A k \in TablesRead, slot \in {1, 2}, c \in 0..(MaxCols - 1) :
            LET starts == Tokens(TextAt(TableRead(k), StartRow(slot), c))
                ends == Tokens(TextAt(TableRead(k), EndRow(slot), c))
            IN (/\ Len(starts) >= 2 /\ Len(starts) = Len(ends)
                /\ \A p \in 1..Len(starts) : IsClockText(starts[p]) /\ IsClockText(ends[p]))
               => \A p \in 1..Len(starts) :
                     \E n \in 1..Len(parse_out) :
                        /\ SlotOf(parse_out[n]) = slot
                        /\ parse_out[n].start = starts[p]
                        /\ parse_out[n].end = ends[p]

\* The records the list s holds for month m.
OfMonth(s, m) == SelectSeq(s, LAMBDA rec : MonthOf(rec) = m)

\* The extraction of the k-th region read gave a table that holds a shift.
GoodRegion(k) ==
    k \in TablesRead /\ RegionShifts(year, seen[k].month, seen[k].got) # <<>>

\* C18: when the extraction of a region raises, the other regions are still
\* read and the shifts of the regions before it are returned: parse_pdf
\* returns only after the last region, with the shifts of every region
\* whose table holds one.
C18_RegionFailureIsolated ==
    ppc = "returned" =>
        /\ region > Len(Regions(pages))
        /\ \A k \in 1..Len(seen) : GoodRegion(k) => OfMonth(parse_out, seen[k].month) # <<>>

\* The k-th region read had no table, or a table whose row 0 holds no
\* integer.
EmptyRegion(k) ==
    /\ ~seen[k].got.raised
    /\ \/ seen[k].got.tables = <<>>
       \/ \A c \in 1..Len(RowAt(TableRead(k), 0)) :
             LET cell == RowAt(TableRead(k), 0)[c] IN cell = None \/ ~HasInteger(cell)

\* No extraction raised so far.
NoneRaised == \A k \in 1..Len(seen) : ~seen[k].got.raised

\* C19: as long as no extraction raises, a region without a table or without
\* an integer in row 0 adds no shift, the regions after it are read, every
\* other region has the shifts of its own table, and parse_pdf returns them
\* all after the last region.
C19_EmptyRegionIsolated ==
    NoneRaised =>
        /\ \A k \in 1..Len(seen) :
              /\ EmptyRegion(k) => OfMonth(parsed, seen[k].month) = <<>>
              /\ ~EmptyRegion(k) =>
                    OfMonth(parsed, seen[k].month) = TableShifts(year, seen[k].month, TableRead(k))
        /\ ppc = "regions" => Len(seen) = region - 1
        /\ ppc = "returned" => Len(seen) = Len(Regions(pages)) /\ parse_out = parsed

\* parse_pdf returned the shifts of a region read after a region without a
\* table and a region without a day axis.
C19_Witness ==
    /\ NoneRaised /\ ppc = "returned"
    /\ \E a, b, c \in 1..Len(seen) :
          /\ a < c /\ b < c
          /\ seen[a].got = NoTables
          /\ EmptyRegion(b) /\ seen[b].got.tables # <<>>
          /\ GoodRegion(c)
          /\ OfMonth(parse_out, seen[c].month) # <<>>

\* C21: as long as the session holds no valid credential, uploads and
\* purges issue no gateway call, take no shift list from the parser, leave
\* the calendar as it was, and answer with the page that asks to log in.
C21_CredentialsRequired ==
    creds # "valid" =>
        /\ calls = <<>>
        /\ shifts = <<>> /\ ppc = "idle"
        /\ result = NoResult
        /\ calendar = {UntaggedEvent, KeylessEvent}
        /\ pc \in {"idle", "done"}
        /\ pc = "done" => outcome \in {UploadLoginPage, PurgeLoginPage}

\* An upload and then a purge were refused because the credential is not
\* valid.
C21_Witness ==
    /\ creds = "invalid"
    /\ runs = 2
    /\ pc = "done" /\ outcome = PurgeLoginPage

\* The months of the regions read, in the order they were read.
MonthsRead == [k \in 1..Len(seen) |-> seen[k].month]

C23_PhaseOrdering ==
    /\ \A a, b \in 1..Len(calls) :
          /\ (calls[a].op = "list" /\ calls[b].op \in {"insert", "patch", "delete"}) => a < b
          /\ (calls[a].op \in {"insert", "patch"} /\ calls[b].op = "delete") => a < b
    /\ Len(UpsertCalls) <= Len(shifts)
    /\ \A k \in 1..Len(UpsertCalls) : UpsertCalls[k].key = shifts[k].key
    /\ (CallsOf({"delete"}) # {} \/ (Returned /\ ~ListFailed)) => Len(UpsertCalls) = Len(shifts)

\* A completed run with two list calls, inserts and patches for three shifts
\* and a delete call.
C23_Witness ==
    /\ Returned
    /\ Cardinality(CallsOf({"list"})) >= 2
    /\ Cardinality(CallsOf({"insert"})) >= 1
    /\ Cardinality(CallsOf({"patch"})) >= 1
    /\ Len(UpsertCalls) = 3
    /\ CallsOf({"delete"}) # {}

\* C25: an upload whose parse gave no shift issues no gateway call, does not
\* run sync and leaves the calendar as it was; whenever sync runs or has
\* returned, or a gateway call was issued, the shift list is not empty.
C25_EmptyParseNoSync ==
    /\ (pc = "done" /\ shifts = <<>>) =>
          /\ calls = <<>>
          /\ result = NoResult
          /\ calendar = before
          /\ outcome = NoShiftsPage
    /\ (pc \notin {"idle", "done"} \/ result # NoResult \/ calls # <<>>) => shifts # <<>>

\* An upload without shifts after an upload that filled the calendar: the
\* events of the first are still there.
C25_Witness ==
    /\ pc = "done" /\ shifts = <<>> /\ outcome = NoShiftsPage
    /\ runs = 2
    /\ \E e \in calendar : e.tagged /\ ~Keyless(e)

\* C24: in a table read that has a day axis, every column, among the first
\* MaxCols, whose row-1 and row-2 cells are times of the day gives a shift
\* of slot 1 with those times, whatever rows 4 and 5 hold and whether the
\* table has them or not.
C24_SlotOneIndependent ==
    ParseCompleted =>
        \A k \in TablesRead, c \in 0..(MaxCols - 1) :
            (/\ ~EmptyRegion(k)
             /\ IsClockText(TextAt(TableRead(k), 1, c))
             /\ IsClockText(TextAt(TableRead(k), 2, c)))
            => \E n \in 1..Len(parse_out) :
                  /\ SlotOf(parse_out[n]) = 1
                  /\ parse_out[n].start = TextAt(TableRead(k), 1, c)
                  /\ parse_out[n].end = TextAt(TableRead(k), 2, c)

====
